---- MODULE Spec2Model ----
(***************************************************************************)
(* The Ion binary writer (binarywriter.go) and the symbol tables it uses   *)
(* (symbol table source), as a state machine over one writer and its sink. *)
(* Bytes are naturals 0..255, byte slices are sequences of bytes.          *)
(***************************************************************************)
EXTENDS Integers, Sequences, FiniteSets, TLC

(***************************************************************************)
(* Bounds of the model.                                                    *)
(***************************************************************************)
\* public calls made on one writer
MaxOps == 4
\* scalar values written by the user on one writer
MaxScalars == 2
\* lists, sexps and structs opened by the user on one writer
MaxOpens == 2
\* pending annotations set by the user before one value
MaxAnnots == 1

(***************************************************************************)
(* Bit codecs.                                                             *)
(***************************************************************************)
RECURSIVE Pow(_, _)
Pow(b, e) == IF e = 0 THEN 1 ELSE b * Pow(b, e - 1)

RECURSIVE varUintLen(_)
\* number of base-128 digits of n, at least one
varUintLen(n) == IF n < 128 THEN 1 ELSE 1 + varUintLen(n \div 128)

\* base-128 digits of n, most significant first, terminator bit on the last
appendVarUint(buf, n) ==
    LET k == varUintLen(n)
    IN  buf \o [i \in 1..k |->
                  LET d == (n \div Pow(128, k - i)) % 128
                  IN  IF i = k THEN d + 128 ELSE d]

RECURSIVE varIntLenMag(_)
varIntLenMag(m) == IF m < 64 THEN 1 ELSE 1 + varIntLenMag(m \div 128)

\* like varUintLen, the first byte keeps bit 6 for the sign
varIntLen(n) == varIntLenMag(IF n < 0 THEN -n ELSE n)

appendVarInt(buf, n) ==
    LET m == IF n < 0 THEN -n ELSE n
        k == varIntLenMag(m)
    IN  buf \o [i \in 1..k |->
                  LET d == (m \div Pow(128, k - i)) % 128
                  IN  d + (IF i = 1 /\ n < 0 THEN 64 ELSE 0)
                        + (IF i = k THEN 128 ELSE 0)]

RECURSIVE uintLen(_)
\* number of bytes of the minimal big-endian form of n; zero takes no byte
uintLen(n) == IF n = 0 THEN 0 ELSE 1 + uintLen(n \div 256)

appendUint(buf, n) ==
    LET k == uintLen(n)
    IN  buf \o [i \in 1..k |-> (n \div Pow(256, k - i)) % 256]

\* sign-magnitude length of a coefficient; zero takes no byte
bigIntLen(v) ==
    LET m == IF v < 0 THEN -v ELSE v
        k == uintLen(m)
    IN  IF v = 0 THEN 0
        ELSE IF (m \div Pow(256, k - 1)) >= 128 THEN k + 1 ELSE k

appendBigInt(buf, v) ==
    LET m  == IF v < 0 THEN -v ELSE v
        k  == uintLen(m)
        sg == IF v < 0 THEN 128 ELSE 0
        mb == appendUint(<<>>, m)
    IN  IF v = 0 THEN buf
        ELSE IF mb[1] >= 128 THEN buf \o <<sg>> \o mb
        ELSE buf \o [i \in 1..k |-> IF i = 1 THEN mb[1] + sg ELSE mb[i]]

tagLen(len) == IF len < 14 THEN 1 ELSE 1 + varUintLen(len)

appendTag(buf, code, len) ==
    IF len < 14 THEN buf \o <<code + len>>
    ELSE appendVarUint(buf \o <<code + 14>>, len)

\* a slice of n zero bytes: make([]byte, n)
makeBytes(n) == [i \in 1..n |-> 0]

\* a timestamp is its UTC fields with second precision and no fraction:
\* [year, month, day, hour, minute, second]
timeLen(offset, utc) ==
    varIntLen(offset) + varUintLen(utc.year) + varUintLen(utc.month)
    + varUintLen(utc.day) + varUintLen(utc.hour) + varUintLen(utc.minute)
    + varUintLen(utc.second)

appendTime(buf, offset, utc) ==
    appendVarUint(appendVarUint(appendVarUint(appendVarUint(appendVarUint(
    appendVarUint(appendVarInt(buf, offset), utc.year), utc.month), utc.day),
    utc.hour), utc.minute), utc.second)

(***************************************************************************)
(* Texts and their UTF-8 bytes.                                            *)
(***************************************************************************)
SystemSymbols ==
    << "$ion", "$ion_1_0", "$ion_symbol_table", "name", "version",
       "imports", "symbols", "max_id", "$ion_shared_symbol_table" >>

\* the bytes Go appends for a string (append(buf, val...))
Utf8(s) ==
    CASE s = ""                         -> <<>>
      [] s = "a"                        -> <<97>>
      [] s = "b"                        -> <<98>>
      [] s = "t"                        -> <<116>>
      [] s = "$ion"                     -> <<36, 105, 111, 110>>
      [] s = "$ion_1_0"                 -> <<36, 105, 111, 110, 95, 49, 95, 48>>
      [] s = "$ion_symbol_table"        ->
             <<36, 105, 111, 110, 95, 115, 121, 109, 98, 111, 108, 95,
               116, 97, 98, 108, 101>>
      [] s = "name"                     -> <<110, 97, 109, 101>>
      [] s = "version"                  -> <<118, 101, 114, 115, 105, 111, 110>>
      [] s = "imports"                  -> <<105, 109, 112, 111, 114, 116, 115>>
      [] s = "symbols"                  -> <<115, 121, 109, 98, 111, 108, 115>>
      [] s = "max_id"                   -> <<109, 97, 120, 95, 105, 100>>
      [] s = "$ion_shared_symbol_table" ->
             <<36, 105, 111, 110, 95, 115, 104, 97, 114, 101, 100, 95, 115,
               121, 109, 98, 111, 108, 95, 116, 97, 98, 108, 101>>

(***************************************************************************)
(* Symbol tables.  A lookup returns [id, ok]; an index is a function from  *)
(* the texts it holds to their IDs.  A Go map is a reference: indexID      *)
(* names the map object a table's index field points to.                   *)
(***************************************************************************)
EmptyIndex == [s \in {} |-> 0]

Found(id) == [id |-> id, ok |-> TRUE]
NotFound == [id |-> 0, ok |-> FALSE]

RECURSIVE buildIndexLoop(_, _, _, _, _)
buildIndexLoop(symbols, offset, i, index, copy) ==
    IF i > Len(symbols) THEN [index |-> index, copy |-> copy]
    ELSE IF symbols[i] \in DOMAIN index
         THEN buildIndexLoop(symbols, offset, i + 1, index, copy)
         ELSE buildIndexLoop(symbols, offset, i + 1,
                  index @@ (symbols[i] :> (offset + Len(copy) + 1)),
                  Append(copy, symbols[i]))

buildIndex(symbols, offset) == buildIndexLoop(symbols, offset, 1, EmptyIndex, <<>>)

NewSharedSymbolTable(name, version, symbols) ==
    LET b == buildIndex(symbols, 0)
    IN  [name |-> name, version |-> version, symbols |-> b.copy, index |-> b.index]

SharedMaxID(s) == Len(s.symbols)

SharedFindByName(s, sym) ==
    IF sym \in DOMAIN s.index THEN Found(s.index[sym]) ELSE NotFound

V1SystemSymbolTable == NewSharedSymbolTable("$ion", 1, SystemSymbols)

RECURSIVE processImportsLoop(_, _, _, _)
processImportsLoop(imps, i, offsets, maxID) ==
    IF i > Len(imps) THEN [imps |-> imps, offsets |-> offsets, maxID |-> maxID]
    ELSE processImportsLoop(imps, i + 1, Append(offsets, maxID),
                            maxID + SharedMaxID(imps[i]))

processImports(imports) == processImportsLoop(imports, 1, <<>>, 0)

NewLocalSymbolTable(imports, symbols) ==
    LET p == processImports(imports)
        b == buildIndex(symbols, p.maxID)
    IN  [imports |-> p.imps, offsets |-> p.offsets, maxImportID |-> p.maxID,
         symbols |-> b.copy, index |-> b.index, indexID |-> "table"]

MaxID(t) == t.maxImportID + Len(t.symbols)

RECURSIVE FindByNameLoop(_, _, _)
FindByNameLoop(t, s, i) ==
    IF i > Len(t.imports)
    THEN IF s \in DOMAIN t.index THEN Found(t.index[s]) ELSE NotFound
    ELSE LET r == SharedFindByName(t.imports[i], s)
         IN  IF r.ok THEN Found(t.offsets[i] + r.id)
             ELSE FindByNameLoop(t, s, i + 1)

\* FindByName that asks the local index before the imports
FindByName_LocalFirst(t, s) ==
    IF s \in DOMAIN t.index THEN Found(t.index[s]) ELSE FindByNameLoop(t, s, 1)

FindByName(t, s) == FindByNameLoop(t, s, 1)

\* a lookup by ID returns [text, ok]
FoundText(s) == [text |-> s, ok |-> TRUE]
NotFoundText == [text |-> "", ok |-> FALSE]

SharedFindByID(s, id) ==
    IF id <= 0 \/ id > Len(s.symbols) THEN NotFoundText
    ELSE FoundText(s.symbols[id])

RECURSIVE findByIDInImportsLoop(_, _, _, _)
\* the loop of findByIDInImports with Go's i and off; Go's imports[i-1] and
\* offsets[i] are imports[i] and offsets[i + 1] here
findByIDInImportsLoop(t, id, i, off) ==
    IF i < Len(t.imports) /\ ~(id <= t.offsets[i + 1])
    THEN findByIDInImportsLoop(t, id, i + 1, t.offsets[i + 1])
    ELSE SharedFindByID(t.imports[i], id - off)

\* findByIDInImports without the loop: the first import answers
findByIDInImports_FirstImport(t, id) == SharedFindByID(t.imports[1], id)

findByIDInImports(t, id) == findByIDInImportsLoop(t, id, 1, 0)

FindByID(t, id) ==
    IF id <= 0 THEN NotFoundText
    ELSE IF id <= t.maxImportID THEN findByIDInImports(t, id)
    ELSE IF id - t.maxImportID - 1 < Len(t.symbols)
         THEN FoundText(t.symbols[id - t.maxImportID])
         ELSE NotFoundText

NewSymbolTableBuilder(imports) ==
    LET p == processImports(imports)
    IN  [imports |-> p.imps, offsets |-> p.offsets, maxImportID |-> p.maxID,
         symbols |-> <<>>, index |-> EmptyIndex, indexID |-> "builder"]

\* Add without the lookup of lines 301-303
Add_AlwaysAppends(b, symbol) ==
    LET syms == Append(b.symbols, symbol)
        id   == b.maxImportID + Len(syms)
    IN  [b |-> [b EXCEPT !.symbols = syms,
                         !.index = [x \in DOMAIN b.index \cup {symbol} |->
                                       IF x = symbol THEN id ELSE b.index[x]]],
         id |-> id, isNew |-> TRUE]

\* Add that computes the ID from the length of the list before the append
Add_CountsBefore(b, symbol) ==
    LET r == FindByName(b, symbol)
    IN  IF r.ok THEN [b |-> b, id |-> r.id, isNew |-> FALSE]
        ELSE LET id == b.maxImportID + Len(b.symbols)
             IN  [b |-> [b EXCEPT !.symbols = Append(b.symbols, symbol),
                                  !.index = b.index @@ (symbol :> id)],
                  id |-> id, isNew |-> TRUE]

\* returns the builder after the call, the ID and whether the text was new
Add(b, symbol) ==
    LET r == FindByName(b, symbol)
    IN  IF r.ok THEN [b |-> b, id |-> r.id, isNew |-> FALSE]
        ELSE LET syms == Append(b.symbols, symbol)
                 id   == b.maxImportID + Len(syms)
             IN  [b |-> [b EXCEPT !.symbols = syms,
                                  !.index = b.index @@ (symbol :> id)],
                  id |-> id, isNew |-> TRUE]

\* Build that hands the builder's own map to the table
Build_SharesIndex(b) ==
    [imports |-> b.imports, offsets |-> b.offsets, maxImportID |-> b.maxImportID,
     symbols |-> [i \in 1..Len(b.symbols) |-> b.symbols[i]],
     index |-> b.index, indexID |-> b.indexID]

\* the table gets a map of its own (make, line 314) filled from the builder's
Build(b) ==
    [imports |-> b.imports, offsets |-> b.offsets, maxImportID |-> b.maxImportID,
     symbols |-> [i \in 1..Len(b.symbols) |-> b.symbols[i]],
     index |-> [s \in DOMAIN b.index |-> b.index[s]], indexID |-> "table"]

(***************************************************************************)
(* Errors.  nil is Nil; every other error keeps its message and the text   *)
(* the message is about.                                                   *)
(***************************************************************************)
Nil == [msg |-> "nil", arg |-> ""]
ErrFieldNameNotSet == [msg |-> "ion: field name not set", arg |-> ""]
ErrSymbolNotDefined(s) == [msg |-> "ion: symbol not defined", arg |-> s]
ErrSymbolNotDefinedLST(s) ==
    [msg |-> "ion: symbol not defined in local symbol table", arg |-> s]
ErrWrongContainer == [msg |-> "ion: not in that kind of container", arg |-> ""]
ErrNotAtTopLevel == [msg |-> "ion: not at top level", arg |-> ""]
\* the error a broken sink returns from Write
ErrSink == [msg |-> "sink: write failed", arg |-> ""]

(***************************************************************************)
(* Buffer nodes and the buffer stack.                                      *)
(***************************************************************************)
atom(bs) == [kind |-> "atom", bs |-> bs]
container(code) == [kind |-> "container", code |-> code, children |-> <<>>]

RECURSIVE NodeLen(_)
RECURSIVE ChildrenLen(_, _)
\* serialized length of the children from the i-th on
ChildrenLen(children, i) ==
    IF i > Len(children) THEN 0
    ELSE NodeLen(children[i]) + ChildrenLen(children, i + 1)

NodeLen(node) ==
    IF node.kind = "atom" THEN Len(node.bs)
    ELSE LET cl == ChildrenLen(node.children, 1) IN tagLen(cl) + cl

RECURSIVE NodeBytes(_)
RECURSIVE ChildrenBytes(_, _)
ChildrenBytes(children, i) ==
    IF i > Len(children) THEN <<>>
    ELSE NodeBytes(children[i]) \o ChildrenBytes(children, i + 1)

\* NodeBytes with a tag that declares the number of children, not their bytes
NodeBytes_CountsChildren(node) ==
    IF node.kind = "atom" THEN node.bs
    ELSE appendTag(<<>>, node.code, Len(node.children))
         \o ChildrenBytes(node.children, 1)

\* the bytes EmitTo writes for a node
NodeBytes(node) ==
    IF node.kind = "atom" THEN node.bs
    ELSE appendTag(<<>>, node.code, ChildrenLen(node.children, 1))
         \o ChildrenBytes(node.children, 1)

\* the writer after node.EmitTo(w.out), and the error returned
EmitTo(w, node) ==
    IF w.broken THEN [w |-> w, err |-> ErrSink]
    ELSE [w |-> [w EXCEPT !.out = @ \o NodeBytes(node)], err |-> Nil]

bufsPeekIsNil(w) == w.bufs = <<>>
bufsPeek(w) == w.bufs[Len(w.bufs)]
bufsPush(w, c) == [w EXCEPT !.bufs = Append(@, c)]
bufsPop(w) == [w EXCEPT !.bufs = SubSeq(@, 1, Len(@) - 1)]
bufsAppend(w, node) ==
    [w EXCEPT !.bufs[Len(w.bufs)].children = Append(@, node)]

ctxAtTopLevel == "top"
ctxInList == "list"
ctxInSexp == "sexp"
ctxInStruct == "struct"

ctxPeek(w) == w.ctx[Len(w.ctx)]
ctxPush(w, t) == [w EXCEPT !.ctx = Append(@, t)]
ctxPop(w) == [w EXCEPT !.ctx = SubSeq(@, 1, Len(@) - 1)]
InStruct(w) == ctxPeek(w) = ctxInStruct

(***************************************************************************)
(* The writer.  A writer value w has the fields of binaryWriter and of the *)
(* embedded writer: out and broken (the sink and whether it rejects        *)
(* writes), bufs, ctx, fieldName, typeAnnotations, err, lst, lstb,         *)
(* wroteLST; panicked says that a call has panicked, after which no code   *)
(* of the writer runs.  Private functions return [w, err].                 *)
(***************************************************************************)
NilTable == [nil |-> TRUE]

NewWriter(lst, lstb) ==
    [out |-> <<>>, broken |-> FALSE, bufs |-> <<>>, ctx |-> <<ctxAtTopLevel>>,
     fieldName |-> "", typeAnnotations |-> <<>>, err |-> Nil,
     lst |-> lst, lstb |-> lstb, wroteLST |-> FALSE, panicked |-> FALSE]

NewBinaryWriter(sts) == NewWriter(NilTable, NewSymbolTableBuilder(sts))

NewBinaryWriterLST(lst) == NewWriter(lst, NilTable)

Ok(w) == [w |-> w, err |-> Nil]
Fail(w, e) == [w |-> w, err |-> e]
Panic(w) == [w |-> [w EXCEPT !.panicked = TRUE], err |-> Nil]

emit(w, node) ==
    IF bufsPeekIsNil(w) THEN EmitTo(w, node)
    ELSE Ok(bufsAppend(w, node))

write(w, bs) == emit(w, atom(bs))

writeTag(w, code, len) ==
    LET tl  == tagLen(len)
        tag == appendTag(makeBytes(tl), code, len)
    IN  write(w, tag)

\* A payload function f is the sequence of the calls it makes: Wr(bs) for
\* w.write(bs) and WrTag(code, len) for w.writeTag(code, len).
Wr(bs) == [call |-> "write", bs |-> bs, code |-> 0, len |-> 0]
WrTag(code, len) == [call |-> "writeTag", bs |-> <<>>, code |-> code, len |-> len]

RECURSIVE runPayload(_, _, _)
\* the calls of f in order, up to the first that fails
runPayload(w, f, i) ==
    IF i > Len(f) THEN Ok(w)
    ELSE LET r == IF f[i].call = "write" THEN write(w, f[i].bs)
                  ELSE writeTag(w, f[i].code, f[i].len)
         IN  IF r.err # Nil THEN r ELSE runPayload(r.w, f, i + 1)

\* a step that returned early: with an error, or by a panic
Failed(r) == r.w.panicked \/ r.err # Nil

\* lines 100-118, after the step l: the field name of a value in a struct
beginValueName(l, name) ==
    IF Failed(l) THEN l
    ELSE IF InStruct(l.w)
    THEN IF name = "" THEN Fail(l.w, ErrFieldNameNotSet)
         ELSE IF l.w.lst = NilTable THEN Panic(l.w)
         ELSE IF ~FindByName(l.w.lst, name).ok
         THEN Fail(l.w, ErrSymbolNotDefined(name))
         ELSE write(l.w, appendVarUint(<<>>, FindByName(l.w.lst, name).id))
    ELSE l

RECURSIVE annotationIDs(_, _, _)
\* the loop of lines 124-134: [ids, err], err for the first text not found
annotationIDs(w, tas, i) ==
    IF i > Len(tas) THEN [ids |-> <<>>, err |-> Nil]
    ELSE LET r == FindByName(w.lst, tas[i])
         IN  IF ~r.ok THEN [ids |-> <<>>, err |-> ErrSymbolNotDefined(tas[i])]
             ELSE LET rest == annotationIDs(w, tas, i + 1)
                  IN  [ids |-> <<r.id>> \o rest.ids, err |-> rest.err]

RECURSIVE idsLen(_, _)
idsLen(ids, i) ==
    IF i > Len(ids) THEN 0 ELSE varUintLen(ids[i]) + idsLen(ids, i + 1)

RECURSIVE appendIDs(_, _, _)
appendIDs(buf, ids, i) ==
    IF i > Len(ids) THEN buf
    ELSE appendIDs(appendVarUint(buf, ids[i]), ids, i + 1)

\* lines 138-147: the wrapper is pushed and the list of IDs written into it
beginValueWrapper(w, ids) ==
    write(bufsPush(w, container(224)),
          appendIDs(appendVarUint(<<>>, idsLen(ids, 1)), ids, 1))

\* beginValueAnnotations that pushes the wrapper before it resolves the texts
beginValueAnnotations_PushesFirst(n, tas) ==
    IF Failed(n) THEN n
    ELSE IF Len(tas) > 0
    THEN IF n.w.lst = NilTable THEN Panic(n.w)
         ELSE IF annotationIDs(n.w, tas, 1).err # Nil
         THEN Fail(bufsPush(n.w, container(224)), annotationIDs(n.w, tas, 1).err)
         ELSE beginValueWrapper(n.w, annotationIDs(n.w, tas, 1).ids)
    ELSE n

\* lines 120-148, after the step n: the annotation wrapper and its list of IDs
beginValueAnnotations(n, tas) ==
    IF Failed(n) THEN n
    ELSE IF Len(tas) > 0
    THEN IF n.w.lst = NilTable THEN Panic(n.w)
         ELSE IF annotationIDs(n.w, tas, 1).err # Nil
         THEN Fail(n.w, annotationIDs(n.w, tas, 1).err)
         ELSE beginValueWrapper(n.w, annotationIDs(n.w, tas, 1).ids)
    ELSE n

\* lines 87-90: the writer with its pending field name and annotations cleared
beginValueClear(w) == [w EXCEPT !.fieldName = "", !.typeAnnotations = <<>>]

\* beginValue as the calls made by WriteTo run it.  These calls are made by
\* writeLST, either from beginValue after line 94 has set wroteLST or from
\* Finish in builder mode, where lst is nil: lines 92-98 do nothing in them.
beginValueNested(w) ==
    beginValueAnnotations(
        beginValueName(Ok(beginValueClear(w)), w.fieldName),
        w.typeAnnotations)

\* endValue that leaves an annotation wrapper on the buffer stack
endValue_LeavesWrapper(w) == Ok(w)

endValue(w) ==
    IF ~bufsPeekIsNil(w) /\ bufsPeek(w).code = 224
    THEN emit(bufsPop(w), bufsPeek(w))
    ELSE Ok(w)

\* lines 173-177, after the payload function returned r
writeValueEnd(r) == IF Failed(r) THEN r ELSE endValue(r.w)

\* lines 169-177, after beginValue returned b
writeValueBody(b, f) ==
    IF Failed(b) THEN b ELSE writeValueEnd(runPayload(b.w, f, 1))

\* writeValue as the calls made by WriteTo run it
writeValueNested(w, f) == writeValueBody(beginValueNested(w), f)

\* beginContainerBody that also marks the symbol table as not written
beginContainerBody_ForgetsLST(b, t, code) ==
    IF Failed(b) THEN b
    ELSE Ok(bufsPush(ctxPush([b.w EXCEPT !.wroteLST = FALSE], t), container(code)))

\* lines 182-189, after beginValue returned b
beginContainerBody(b, t, code) ==
    IF Failed(b) THEN b ELSE Ok(bufsPush(ctxPush(b.w, t), container(code)))

\* beginContainer as the calls made by WriteTo run it
beginContainerNested(w, t, code) ==
    beginContainerBody(beginValueNested(w), t, code)

\* endContainerEnd with one more field cleared: wroteLST
endContainerEnd_ResetsLST(e) ==
    IF Failed(e) THEN e
    ELSE endValue(ctxPop([beginValueClear(e.w) EXCEPT !.wroteLST = FALSE]))

\* endContainerEnd without lines 207-208: the pending state is kept
endContainerEnd_KeepsPending(e) ==
    IF Failed(e) THEN e
    ELSE endValue(ctxPop(e.w))

\* lines 206-211, after the container was emitted with result e
endContainerEnd(e) ==
    IF Failed(e) THEN e
    ELSE endValue(ctxPop(beginValueClear(e.w)))

\* endContainer without the check of lines 195-197
endContainer_Unchecked(w, t) ==
    endContainerEnd(IF bufsPeekIsNil(w) THEN Ok(w)
                    ELSE emit(bufsPop(w), bufsPeek(w)))

endContainer(w, t) ==
    IF ctxPeek(w) # t THEN Fail(w, ErrWrongContainer)
    ELSE endContainerEnd(IF bufsPeekIsNil(w) THEN Ok(w)
                         ELSE emit(bufsPop(w), bufsPeek(w)))

(***************************************************************************)
(* Public operations, each as [w, err]: the writer after the call and the   *)
(* error that the processing of the call returned (Nil when the call did   *)
(* nothing); the Go methods themselves return nothing.                     *)
(***************************************************************************)
\* w.err = <call>; a call that panicked assigns nothing
StoreErr(r) ==
    IF r.w.panicked THEN r ELSE [w |-> [r.w EXCEPT !.err = r.err], err |-> r.err]

\* a call whose result is dropped
DropErr(r) == r

FieldName(w, val) ==
    IF w.panicked THEN Ok(w) ELSE Ok([w EXCEPT !.fieldName = val])

TypeAnnotation(w, val) ==
    IF w.panicked THEN Ok(w) ELSE Ok([w EXCEPT !.typeAnnotations = Append(@, val)])

\* the calls of the payload function of WriteInt
intPayload(val) ==
    IF val = 0 THEN << Wr(<<32>>) >>
    ELSE LET code == IF val < 0 THEN 48 ELSE 32
             mag  == IF val < 0 THEN -val ELSE val
             len  == uintLen(mag)
         IN  << Wr(appendUint(appendTag(<<>>, code, len), mag)) >>

\* WriteInt as WriteTo calls it
WriteIntNested(w, val) ==
    IF w.panicked \/ w.err # Nil THEN Ok(w)
    ELSE StoreErr(writeValueNested(w, intPayload(val)))

\* the calls of the payload function of WriteString
stringPayload(val) ==
    IF Len(Utf8(val)) = 0 THEN << Wr(<<128>>) >>
    ELSE << Wr(appendTag(<<>>, 128, Len(Utf8(val))) \o Utf8(val)) >>

\* WriteString as WriteTo calls it
WriteStringNested(w, val) ==
    IF w.panicked \/ w.err # Nil THEN Ok(w)
    ELSE StoreErr(writeValueNested(w, stringPayload(val)))

\* BeginList as WriteTo calls it
BeginListNested(w) ==
    IF w.panicked \/ w.err # Nil THEN Ok(w)
    ELSE StoreErr(beginContainerNested(w, ctxInList, 176))

\* BeginStruct as WriteTo calls it
BeginStructNested(w) ==
    IF w.panicked \/ w.err # Nil THEN Ok(w)
    ELSE StoreErr(beginContainerNested(w, ctxInStruct, 208))

EndList(w) ==
    IF w.panicked \/ w.err # Nil THEN Ok(w)
    ELSE StoreErr(endContainer(w, ctxInList))

EndSexp(w) ==
    IF w.panicked \/ w.err # Nil THEN Ok(w)
    ELSE StoreErr(endContainer(w, ctxInSexp))

EndStruct(w) ==
    IF w.panicked \/ w.err # Nil THEN Ok(w)
    ELSE StoreErr(endContainer(w, ctxInStruct))

(***************************************************************************)
(* Writing a local symbol table through the writer.                        *)
(***************************************************************************)
\* one import of the imports list: a struct of name, version and max_id
WriteToImport(imp, w) ==
    EndStruct(
      WriteIntNested(FieldName(
        WriteIntNested(FieldName(
          WriteStringNested(FieldName(
            BeginStructNested(w).w,
            "name").w, imp.name).w,
          "version").w, imp.version).w,
        "max_id").w, SharedMaxID(imp)).w).w

RECURSIVE WriteToImports(_, _, _)
\* the loop over t.imports, from the i-th import on
WriteToImports(t, w, i) ==
    IF i > Len(t.imports) THEN w
    ELSE WriteToImports(t, WriteToImport(t.imports[i], w), i + 1)

RECURSIVE WriteToSymbols(_, _, _)
WriteToSymbols(t, w, i) ==
    IF i > Len(t.symbols) THEN w
    ELSE WriteToSymbols(t, WriteStringNested(w, t.symbols[i]).w,
                        i + 1)

\* the imports field of WriteTo
WriteToImportsField(t, w) ==
    IF Len(t.imports) > 0
    THEN EndList(WriteToImports(t,
             BeginListNested(FieldName(w, "imports").w).w, 1)).w
    ELSE w

\* the symbols field of WriteTo
WriteToSymbolsField(t, w) ==
    IF Len(t.symbols) > 0
    THEN EndList(WriteToSymbols(t,
             BeginListNested(FieldName(w, "symbols").w).w, 1)).w
    ELSE w

\* return w.Err()
Err(w) == [w |-> w, err |-> w.err]

\* LocalSymbolTable.WriteTo: [w, err] with err = w.Err()
WriteTo(t, w) ==
    Err(EndStruct(WriteToSymbolsField(t, WriteToImportsField(t,
        BeginStructNested(TypeAnnotation(w, "$ion_symbol_table").w).w))).w)

\* lines 76-79, after the marker was written with result r
writeLSTTable(r, lst) == IF Failed(r) THEN r ELSE WriteTo(lst, r.w)

writeLST(w, lst) == writeLSTTable(write(w, <<224, 1, 0, 234>>), lst)

\* lines 92-98: the marker and the supplied table before the first value
beginValueLST(w) ==
    IF w.lst # NilTable /\ ~w.wroteLST
    THEN writeLST([w EXCEPT !.wroteLST = TRUE], w.lst)
    ELSE Ok(w)

\* beginValue that clears the pending field name and annotations only after
\* the table has been written
beginValue_ClearsLate(w) ==
    beginValueAnnotations(
        beginValueName(beginValueLST(w), w.fieldName),
        w.typeAnnotations)

\* beginValue that opens the wrapper before it writes the field name
beginValue_NameInWrapper(w) ==
    beginValueName(beginValueAnnotations(beginValueLST(beginValueClear(w)),
                                         w.typeAnnotations),
                   w.fieldName)

beginValue(w) ==
    beginValueAnnotations(
        beginValueName(beginValueLST(beginValueClear(w)), w.fieldName),
        w.typeAnnotations)

writeValue(w, f) == writeValueBody(beginValue(w), f)

beginContainer(w, t, code) == beginContainerBody(beginValue(w), t, code)

Types ==
    { "NoType", "NullType", "BoolType", "IntType", "FloatType", "DecimalType",
      "TimestampType", "SymbolType", "StringType", "ClobType", "BlobType",
      "ListType", "SexpType", "StructType" }

nulls ==
    [t \in Types |->
       CASE t = "NoType"        -> 15
         [] t = "NullType"      -> 15
         [] t = "BoolType"      -> 31
         [] t = "IntType"       -> 47
         [] t = "FloatType"     -> 79
         [] t = "DecimalType"   -> 95
         [] t = "TimestampType" -> 111
         [] t = "SymbolType"    -> 127
         [] t = "StringType"    -> 143
         [] t = "ClobType"      -> 159
         [] t = "BlobType"      -> 175
         [] t = "ListType"      -> 191
         [] t = "SexpType"      -> 207
         [] t = "StructType"    -> 223]

WriteNullWithType(w, t) ==
    IF w.panicked \/ w.err # Nil THEN Ok(w)
    ELSE StoreErr(writeValue(w, << Wr(<<nulls[t]>>) >>))

WriteNull(w) == WriteNullWithType(w, "NullType")

\* WriteBool without the check of the error slot
WriteBool_Unguarded(w, val) ==
    IF w.panicked THEN Ok(w)
    ELSE StoreErr(writeValue(w, << Wr(IF val THEN <<17>> ELSE <<16>>) >>))

WriteBool(w, val) ==
    IF w.panicked \/ w.err # Nil THEN Ok(w)
    ELSE StoreErr(writeValue(w, << Wr(IF val THEN <<17>> ELSE <<16>>) >>))

WriteInt(w, val) ==
    IF w.panicked \/ w.err # Nil THEN Ok(w)
    ELSE StoreErr(writeValue(w, intPayload(val)))

\* val is [sign, bytes]: val.Sign() and val.Bytes()
WriteBigInt(w, val) ==
    IF w.panicked \/ w.err # Nil THEN Ok(w)
    ELSE LET code == IF val.sign < 0 THEN 48 ELSE 32
             bs   == val.bytes
             bl   == Len(bs)
         IN  IF val.sign = 0 THEN StoreErr(writeValue(w, << Wr(<<32>>) >>))
             ELSE IF bl < 64
             THEN StoreErr(writeValue(w, << Wr(appendTag(<<>>, code, bl) \o bs) >>))
             ELSE StoreErr(writeValue(w, << WrTag(code, bl), Wr(bs) >>))

\* val is [zero, bits]: whether val == 0, and the eight bytes of Float64bits(val)
WriteFloat(w, val) ==
    IF w.panicked \/ w.err # Nil THEN Ok(w)
    ELSE StoreErr(writeValue(w,
           IF val.zero THEN << Wr(<<64>>) >> ELSE << Wr(<<72>> \o val.bits) >>))

\* val is [coef, exp]: val.CoEx()
WriteDecimal(w, val) ==
    IF w.panicked \/ w.err # Nil THEN Ok(w)
    ELSE LET vlen == (IF val.exp # 0 THEN varIntLen(val.exp) ELSE 0)
                     + (IF val.coef # 0 THEN bigIntLen(val.coef) ELSE 0)
             tag  == appendTag(<<>>, 80, vlen)
             ex   == IF val.exp # 0 THEN appendVarInt(tag, val.exp) ELSE tag
         IN  DropErr(writeValue(w, << Wr(appendBigInt(ex, val.coef)) >>))

\* val is [zone, utc]: the zone offset in seconds and the fields of val.In(time.UTC)
WriteTimestamp(w, val) ==
    IF w.panicked \/ w.err # Nil THEN Ok(w)
    ELSE LET offset == val.zone \div 60
             vlen   == timeLen(offset, val.utc)
         IN  StoreErr(writeValue(w,
               << Wr(appendTime(appendTag(<<>>, 96, vlen), offset, val.utc)) >>))

symbolValue(id) ==
    LET vlen == uintLen(id)
    IN  appendUint(appendTag(<<>>, 112, vlen), id)

WriteSymbol(w, val) ==
    IF w.panicked \/ w.err # Nil THEN Ok(w)
    ELSE IF w.lst # NilTable
    THEN LET r == FindByName(w.lst, val)
         IN  IF ~r.ok
             THEN Fail([w EXCEPT !.err = ErrSymbolNotDefinedLST(val)],
                       ErrSymbolNotDefinedLST(val))
             ELSE StoreErr(writeValue(w, << Wr(symbolValue(r.id)) >>))
    ELSE LET a == Add(w.lstb, val)
         IN  StoreErr(writeValue([w EXCEPT !.lstb = a.b], << Wr(symbolValue(a.id)) >>))

WriteString(w, val) ==
    IF w.panicked \/ w.err # Nil THEN Ok(w)
    ELSE StoreErr(writeValue(w, stringPayload(val)))

writeLob(w, code, val) ==
    IF w.panicked \/ w.err # Nil THEN Ok(w)
    ELSE LET vlen == Len(val)
         IN  IF vlen < 64
             THEN StoreErr(writeValue(w, << Wr(appendTag(<<>>, code, vlen) \o val) >>))
             ELSE StoreErr(writeValue(w, << WrTag(code, vlen), Wr(val) >>))

WriteClob(w, val) == writeLob(w, 144, val)

WriteBlob(w, val) == writeLob(w, 160, val)

BeginList(w) ==
    IF w.panicked \/ w.err # Nil THEN Ok(w)
    ELSE StoreErr(beginContainer(w, ctxInList, 176))

BeginSexp(w) ==
    IF w.panicked \/ w.err # Nil THEN Ok(w)
    ELSE StoreErr(beginContainer(w, ctxInSexp, 192))

BeginStruct(w) ==
    IF w.panicked \/ w.err # Nil THEN Ok(w)
    ELSE StoreErr(beginContainer(w, ctxInStruct, 208))

\* lines 555-558: w.err = w.emit(seq), after writeLST returned r
FinishEmit(r, seq) == IF Failed(r) THEN r ELSE StoreErr(emit(r.w, seq))

\* lines 545-558, for the writer w1 after w.bufs.pop()
FinishTable(w1, seq) ==
    IF ~bufsPeekIsNil(w1) \/ w1.lstb = NilTable THEN Panic(w1)
    ELSE FinishEmit(writeLST(w1, Build(w1.lstb)), seq)

\* lines 538-558, for the writer w0 with its pending state and wroteLST reset
FinishTop(w0) ==
    IF bufsPeekIsNil(w0) THEN Ok(w0)
    ELSE FinishTable(bufsPop(w0), bufsPeek(w0))

\* Finish that hands a stored error over and clears the slot
Finish_ClearsErr(w) ==
    IF w.err # Nil THEN Fail([w EXCEPT !.err = Nil], w.err)
    ELSE IF ctxPeek(w) # ctxAtTopLevel
    THEN Fail([w EXCEPT !.err = ErrNotAtTopLevel], ErrNotAtTopLevel)
    ELSE FinishTop([beginValueClear(w) EXCEPT !.wroteLST = FALSE])

\* Finish without the check of lines 533-536
Finish_AnyContext(w) ==
    IF w.err # Nil THEN Fail(w, w.err)
    ELSE FinishTop([beginValueClear(w) EXCEPT !.wroteLST = FALSE])

\* [w, err]: the writer after Finish and the error Finish returns
Finish(w) ==
    IF w.err # Nil THEN Fail(w, w.err)
    ELSE IF ctxPeek(w) # ctxAtTopLevel
    THEN Fail([w EXCEPT !.err = ErrNotAtTopLevel], ErrNotAtTopLevel)
    ELSE FinishTop([beginValueClear(w) EXCEPT !.wroteLST = FALSE])

(***************************************************************************)
(* The state machine: one writer, its sink, and the calls made on it.      *)
(***************************************************************************)
VARIABLES
    out,              \* the bytes the sink has received
    broken,           \* the sink rejects every write
    bufs,             \* buffer stack, top last
    ctx,              \* context stack, top last
    fieldName,        \* pending field name
    typeAnnotations,  \* pending annotations
    err,              \* sticky error slot
    lst,              \* the supplied symbol table, NilTable in builder mode
    lstb,             \* the symbol table builder, NilTable with a supplied table
    wroteLST,
    panicked,         \* a call has panicked: the program is gone
    lastOp,           \* kind of the last public call: New, Pending, Write, Begin, End, Finish
    lastRet,          \* error returned by the processing of the last call
    finRes,           \* value returned by the last Finish, NotCalled before the first
    finStreak,        \* number of Finish calls since the last other call
    nOps, nScalars, nOpens

wvars == << out, broken, bufs, ctx, fieldName, typeAnnotations, err, lst, lstb,
            wroteLST, panicked >>
vars == << out, broken, bufs, ctx, fieldName, typeAnnotations, err, lst, lstb,
           wroteLST, panicked, lastOp, lastRet, finRes, finStreak, nOps, nScalars,
           nOpens >>

\* the writer of the current state
W == [out |-> out, broken |-> broken, bufs |-> bufs, ctx |-> ctx,
      fieldName |-> fieldName, typeAnnotations |-> typeAnnotations,
      err |-> err, lst |-> lst, lstb |-> lstb, wroteLST |-> wroteLST,
      panicked |-> panicked]

\* the next state holds the writer w
Becomes(w) ==
    /\ out' = w.out
    /\ broken' = w.broken
    /\ bufs' = w.bufs
    /\ ctx' = w.ctx
    /\ fieldName' = w.fieldName
    /\ typeAnnotations' = w.typeAnnotations
    /\ err' = w.err
    /\ lst' = w.lst
    /\ lstb' = w.lstb
    /\ wroteLST' = w.wroteLST
    /\ panicked' = w.panicked

\* the current state holds the writer w
Holds(w) ==
    /\ out = w.out
    /\ broken = w.broken
    /\ bufs = w.bufs
    /\ ctx = w.ctx
    /\ fieldName = w.fieldName
    /\ typeAnnotations = w.typeAnnotations
    /\ err = w.err
    /\ lst = w.lst
    /\ lstb = w.lstb
    /\ wroteLST = w.wroteLST
    /\ panicked = w.panicked

(***************************************************************************)
(* Inputs.                                                                 *)
(***************************************************************************)
UserTexts == {"a", "b"}
ImportLists == { <<>>, <<V1SystemSymbolTable>> }
SuppliedTables ==
    { NewLocalSymbolTable(<<V1SystemSymbolTable>>, <<"a">>),
      NewLocalSymbolTable(<<>>, <<"a">>),
      NewLocalSymbolTable(<<>>, <<"$ion_symbol_table", "symbols", "a">>) }
NullTypes == {"StructType"}
IntValues == {0, 1}
BigBytes == [i \in 1..64 |-> IF i = 1 THEN 1 ELSE 0]
BigIntValues == { [sign |-> -1, bytes |-> <<1>>], [sign |-> 1, bytes |-> BigBytes] }
FloatValues == { [zero |-> FALSE, bits |-> <<63, 240, 0, 0, 0, 0, 0, 0>>] }
DecimalValues == { [coef |-> -1, exp |-> -1] }
TimeValues ==
    { [zone |-> 0, utc |-> [year |-> 2000, month |-> 1, day |-> 1,
                            hour |-> 0, minute |-> 0, second |-> 0]] }
StringValues == {"a"}
ClobValues == { <<1, 2>> }
BlobValues == { BigBytes }

NotCalled == [msg |-> "Finish not called", arg |-> ""]

Init ==
    /\ \/ \E sts \in ImportLists : Holds(NewBinaryWriter(sts))
       \/ \E t \in SuppliedTables : Holds(NewBinaryWriterLST(t))
    /\ lastOp = "New"
    /\ lastRet = Nil
    /\ finRes = NotCalled
    /\ finStreak = 0
    /\ nOps = 0
    /\ nScalars = 0
    /\ nOpens = 0

(***************************************************************************)
(* Actions: one per public operation.                                      *)
(***************************************************************************)
Call(op, r) ==
    /\ ~panicked
    /\ nOps < MaxOps
    /\ Becomes(r.w)
    /\ lastOp' = op
    /\ lastRet' = r.err
    /\ nOps' = nOps + 1

Scalar(op, r) ==
    /\ nScalars < MaxScalars
    /\ Call(op, r)
    /\ nScalars' = nScalars + 1
    /\ finStreak' = 0
    /\ UNCHANGED << finRes, nOpens >>

Open(op, r) ==
    /\ nOpens < MaxOpens
    /\ Call(op, r)
    /\ nOpens' = nOpens + 1
    /\ finStreak' = 0
    /\ UNCHANGED << finRes, nScalars >>

Other(op, r) ==
    /\ Call(op, r)
    /\ finStreak' = 0
    /\ UNCHANGED << finRes, nScalars, nOpens >>

DoFieldName == \E s \in UserTexts : Other("Pending", FieldName(W, s))

DoTypeAnnotation ==
    /\ Len(typeAnnotations) < MaxAnnots
    /\ \E s \in UserTexts : Other("Pending", TypeAnnotation(W, s))

DoWriteNull == Scalar("Write", WriteNull(W))

DoWriteNullWithType ==
    \E t \in NullTypes : Scalar("Write", WriteNullWithType(W, t))

BoolValues == {TRUE}

DoWriteBool == \E v \in BoolValues : Scalar("Write", WriteBool(W, v))

DoWriteInt == \E v \in IntValues : Scalar("Write", WriteInt(W, v))

DoWriteBigInt == \E v \in BigIntValues : Scalar("Write", WriteBigInt(W, v))

DoWriteFloat == \E v \in FloatValues : Scalar("Write", WriteFloat(W, v))

DoWriteDecimal == \E v \in DecimalValues : Scalar("Write", WriteDecimal(W, v))

DoWriteTimestamp ==
    \E v \in TimeValues : Scalar("Write", WriteTimestamp(W, v))

DoWriteSymbol == \E s \in UserTexts : Scalar("Write", WriteSymbol(W, s))

DoWriteString == \E s \in StringValues : Scalar("Write", WriteString(W, s))

DoWriteClob == \E v \in ClobValues : Scalar("Write", WriteClob(W, v))

DoWriteBlob == \E v \in BlobValues : Scalar("Write", WriteBlob(W, v))

DoBeginList == Open("Begin", BeginList(W))

DoBeginSexp == Open("Begin", BeginSexp(W))

DoBeginStruct == Open("Begin", BeginStruct(W))

DoEndList == Other("End", EndList(W))

DoEndSexp == Other("End", EndSexp(W))

DoEndStruct == Other("End", EndStruct(W))

DoFinish ==
    LET r == Finish(W)
    IN  /\ Call("Finish", r)
        /\ finRes' = r.err
        /\ finStreak' = finStreak + 1
        /\ UNCHANGED << nScalars, nOpens >>

\* the sink starts to reject writes
BreakSink ==
    /\ ~panicked
    /\ ~broken
    /\ broken' = TRUE
    /\ UNCHANGED << out, bufs, ctx, fieldName, typeAnnotations, err, lst, lstb,
                    wroteLST, panicked, lastOp, lastRet, finRes, finStreak, nOps,
                    nScalars, nOpens >>

\* the sink accepts writes again
RepairSink ==
    /\ ~panicked
    /\ broken
    /\ broken' = FALSE
    /\ UNCHANGED << out, bufs, ctx, fieldName, typeAnnotations, err, lst, lstb,
                    wroteLST, panicked, lastOp, lastRet, finRes, finStreak, nOps,
                    nScalars, nOpens >>

Next ==
    \/ DoFieldName
    \/ DoTypeAnnotation
    \/ DoWriteNull
    \/ DoWriteNullWithType
    \/ DoWriteBool
    \/ DoWriteInt
    \/ DoWriteBigInt
    \/ DoWriteFloat
    \/ DoWriteDecimal
    \/ DoWriteTimestamp
    \/ DoWriteSymbol
    \/ DoWriteString
    \/ DoWriteClob
    \/ DoWriteBlob
    \/ DoBeginList
    \/ DoBeginSexp
    \/ DoBeginStruct
    \/ DoEndList
    \/ DoEndSexp
    \/ DoEndStruct
    \/ DoFinish
    \/ BreakSink
    \/ RepairSink

Spec == Init /\ [][Next]_vars

(***************************************************************************)
(* Reading the sink: the Ion 1.0 binary wire format, decoded into values   *)
(* [code, null, field, annots, body, kids].  code is the high nibble of    *)
(* the tag (16 for the version marker); annots are the IDs of an           *)
(* annotation wrapper, whose kids are the values it wraps.                 *)
(***************************************************************************)
BVM == <<224, 1, 0, 234>>

RECURSIVE ReadVarUint(_, _, _, _)
\* the VarUInt that starts at pos: [ok, val, next]
ReadVarUint(bs, pos, end, acc) ==
    IF pos > end THEN [ok |-> FALSE, val |-> 0, next |-> pos]
    ELSE IF bs[pos] >= 128
         THEN [ok |-> TRUE, val |-> acc * 128 + (bs[pos] - 128), next |-> pos + 1]
         ELSE ReadVarUint(bs, pos + 1, end, acc * 128 + bs[pos])

RECURSIVE ReadVarUints(_, _, _)
\* the VarUInts that fill bs[pos..end]: [ok, vals]
ReadVarUints(bs, pos, end) ==
    IF pos > end THEN [ok |-> TRUE, vals |-> <<>>]
    ELSE LET h == ReadVarUint(bs, pos, end, 0)
         IN  IF ~h.ok THEN [ok |-> FALSE, vals |-> <<>>]
             ELSE LET t == ReadVarUints(bs, h.next, end)
                  IN  [ok |-> t.ok, vals |-> <<h.val>> \o t.vals]

RECURSIVE ReadUint(_, _)
\* the big-endian number in the first n bytes of a body
ReadUint(body, n) ==
    IF n = 0 THEN 0 ELSE ReadUint(body, n - 1) * 256 + body[n]

Value(code, null, field, annots, body, kids) ==
    [code |-> code, null |-> null, field |-> field, annots |-> annots,
     body |-> body, kids |-> kids]

BadRead == [ok |-> FALSE, vals |-> <<>>]

RECURSIVE ReadValues(_, _, _, _)
\* the values that fill bs[pos..end], each after its field ID when inStruct
ReadValues(bs, pos, end, inStruct) ==
    IF pos > end THEN [ok |-> TRUE, vals |-> <<>>]
    ELSE IF ~inStruct /\ pos + 3 <= end /\ SubSeq(bs, pos, pos + 3) = BVM
    THEN LET t == ReadValues(bs, pos + 4, end, inStruct)
         IN  [ok |-> t.ok,
              vals |-> <<Value(16, FALSE, 0, <<>>, <<>>, <<>>)>> \o t.vals]
    ELSE LET f == IF inStruct THEN ReadVarUint(bs, pos, end, 0)
                  ELSE [ok |-> TRUE, val |-> 0, next |-> pos]
         IN  IF ~f.ok \/ f.next > end THEN BadRead
             ELSE
             LET code == bs[f.next] \div 16
                 L    == bs[f.next] % 16
                 ln   == IF L = 14 THEN ReadVarUint(bs, f.next + 1, end, 0)
                         ELSE [ok |-> TRUE,
                               val |-> IF L = 15 \/ code = 1 THEN 0 ELSE L,
                               next |-> f.next + 1]
                 last == ln.next + ln.val - 1
             IN  IF ~ln.ok \/ last > end THEN BadRead
                 ELSE
                 LET body == SubSeq(bs, ln.next, last)
                     v == IF L = 15 THEN
                              [ok |-> TRUE,
                               v |-> Value(code, TRUE, f.val, <<>>, <<>>, <<>>)]
                          ELSE IF code \in {11, 12, 13} THEN
                              LET k == ReadValues(bs, ln.next, last, code = 13)
                              IN  [ok |-> k.ok,
                                   v |-> Value(code, FALSE, f.val, <<>>, <<>>, k.vals)]
                          ELSE IF code = 14 THEN
                              LET al == ReadVarUint(bs, ln.next, last, 0)
                                  as == IF al.ok /\ al.next + al.val - 1 <= last
                                        THEN ReadVarUints(bs, al.next,
                                                          al.next + al.val - 1)
                                        ELSE BadRead
                                  k  == IF as.ok
                                        THEN ReadValues(bs, al.next + al.val, last, FALSE)
                                        ELSE BadRead
                              IN  [ok |-> k.ok /\ Len(as.vals) > 0,
                                   v |-> Value(code, FALSE, f.val, as.vals, <<>>, k.vals)]
                          ELSE [ok |-> TRUE,
                                v |-> Value(code, FALSE, f.val, <<>>, body, <<>>)]
                     t == ReadValues(bs, last + 1, end, inStruct)
                 IN  IF ~v.ok THEN BadRead
                     ELSE [ok |-> t.ok, vals |-> <<v.v>> \o t.vals]

\* the top-level values of a byte stream
ReadBinary(bs) == ReadValues(bs, 1, Len(bs), FALSE)

RECURSIVE SymbolIDsIn(_)
\* the IDs of the symbol values among vals, at any depth
SymbolIDsIn(vals) ==
    IF vals = <<>> THEN {}
    ELSE LET v == vals[1]
         IN  (IF v.code = 7 /\ ~v.null THEN {ReadUint(v.body, Len(v.body))} ELSE {})
             \cup SymbolIDsIn(v.kids) \cup SymbolIDsIn(Tail(vals))

\* a local symbol table in the stream: a struct annotated with $ion_symbol_table
IsTable(v) ==
    /\ v.code = 14
    /\ v.annots[1] = 3
    /\ Len(v.kids) = 1
    /\ v.kids[1].code = 13

RECURSIVE SumMaxID(_)
\* the sum of the max_id fields (ID 8) of the structs of an imports list
SumMaxID(imps) ==
    IF imps = <<>> THEN 0
    ELSE LET ms == {i \in 1..Len(imps[1].kids) : imps[1].kids[i].field = 8}
         IN  (IF ms = {} THEN 0
              ELSE LET m == imps[1].kids[CHOOSE i \in ms : TRUE]
                   IN  ReadUint(m.body, Len(m.body)))
             + SumMaxID(Tail(imps))

\* [maxImportID, symbols] of a table read from the stream
TableOf(v) ==
    LET fs == v.kids[1].kids
        is == {i \in 1..Len(fs) : fs[i].field = 6 /\ fs[i].code = 11}
        ss == {i \in 1..Len(fs) : fs[i].field = 7 /\ fs[i].code = 11}
    IN  [maxImportID |-> IF is = {} THEN 0
                         ELSE SumMaxID(fs[CHOOSE i \in is : TRUE].kids),
         symbols |-> IF ss = {} THEN 0
                     ELSE Len(fs[CHOOSE i \in ss : TRUE].kids)]

\* the tables among the top-level values
TablesIn(vals) ==
    { TableOf(vals[i]) : i \in {j \in 1..Len(vals) : IsTable(vals[j])} }

(***************************************************************************)
(* The symbol tables used on their own: a program creates a builder over a *)
(* list of shared tables, adds texts to it, builds tables from it and      *)
(* creates local symbol tables over the same imports.  lstb is the         *)
(* builder, lst the last table made (NilTable before the first), lastOp    *)
(* the last call and lastRet what Add returned; the writer is not used.    *)
(***************************************************************************)
MaxTableOps == 4

SharedTables ==
    { V1SystemSymbolTable,
      NewSharedSymbolTable("s", 1, <<"a", "c">>),
      NewSharedSymbolTable("e", 1, <<>>) }

TableImportLists ==
    {<<>>} \cup { <<x>> : x \in SharedTables }
           \cup { <<x, y>> : x \in SharedTables, y \in SharedTables }
           \cup { <<x, y, z>> : x \in SharedTables, y \in SharedTables,
                                z \in SharedTables }

TableTexts == {"a", "b", "c", "name"}

SymbolLists ==
    {<<>>} \cup { <<x>> : x \in TableTexts }
           \cup { <<x, y>> : x \in {"a", "b"}, y \in TableTexts }

NoResult == [id |-> 0, isNew |-> FALSE, text |-> ""]

InitTables ==
    /\ \E imports \in TableImportLists : Holds(NewBinaryWriter(imports))
    /\ lastOp = "New"
    /\ lastRet = NoResult
    /\ finRes = NotCalled
    /\ finStreak = 0
    /\ nOps = 0
    /\ nScalars = 0
    /\ nOpens = 0

TableCall(op, ret) ==
    /\ nOps < MaxTableOps
    /\ nOps' = nOps + 1
    /\ lastOp' = op
    /\ lastRet' = ret
    /\ UNCHANGED << out, broken, bufs, ctx, fieldName, typeAnnotations, err,
                    wroteLST, panicked, finRes, finStreak, nScalars, nOpens >>

\* b.index[symbol] = id (line 307) writes the builder's map object: a table
\* whose index is that same object reads the new map
indexWritten(t, b) ==
    IF t # NilTable /\ t.indexID = b.indexID THEN [t EXCEPT !.index = b.index]
    ELSE t

\* id, isNew := lstb.Add(s)
DoAdd ==
    \E s \in TableTexts :
       /\ TableCall("Add", [id |-> Add(lstb, s).id, isNew |-> Add(lstb, s).isNew,
                            text |-> s])
       /\ lstb' = Add(lstb, s).b
       /\ lst' = indexWritten(lst, Add(lstb, s).b)

\* lst := lstb.Build()
DoBuild ==
    /\ TableCall("Build", NoResult)
    /\ lst' = Build(lstb)
    /\ lstb' = lstb

\* lst := NewLocalSymbolTable(imports, symbols), with the builder's imports
DoNewLocalSymbolTable ==
    \E symbols \in SymbolLists :
       /\ TableCall("NewLocalSymbolTable", NoResult)
       /\ lst' = NewLocalSymbolTable(lstb.imports, symbols)
       /\ lstb' = lstb

NextTables ==
    \/ DoAdd
    \/ DoBuild
    \/ DoNewLocalSymbolTable

SpecTables == InitTables /\ [][NextTables]_vars

(***************************************************************************)
(* Properties.                                                             *)
(***************************************************************************)
builderMode == lst = NilTable
Sink == ReadBinary(out)
valueWritten == nScalars + nOpens > 0

\* C1: in builder mode no byte reaches the sink before Finish is called, and
\* after a successful Finish that follows a value write the sink starts with
\* the version marker, then a local symbol table, then the user values.
C1_BufferedUntilFinish ==
    builderMode =>
        /\ finRes = NotCalled => out = <<>>
        /\ (lastOp = "Finish" /\ finRes = Nil /\ valueWritten) =>
               /\ Sink.ok
               /\ Len(Sink.vals) >= 3
               /\ Sink.vals[1].code = 16
               /\ IsTable(Sink.vals[2])

\* C2: in builder mode, after a successful Finish every symbol ID of a symbol
\* value in the sink is defined by a local symbol table in the sink: it is at
\* most the table's maxImportID or indexes its symbols list.
C2_SymbolIDsDefined ==
    (builderMode /\ lastOp = "Finish" /\ finRes = Nil) =>
        /\ Sink.ok
        /\ \A id \in SymbolIDsIn(Sink.vals) :
              \E t \in TablesIn(Sink.vals) :
                 /\ id >= 1
                 /\ id <= t.maxImportID + t.symbols

\* the texts a value call made now would resolve: the pending field name
\* inside a struct, and the pending annotations
pendingTexts ==
    (IF InStruct(W) /\ fieldName # "" THEN {fieldName} ELSE {})
    \cup { typeAnnotations[i] : i \in 1..Len(typeAnnotations) }

valueCall == lastOp' \in {"Write", "Begin"} /\ nOps' = nOps + 1

\* C3: in builder mode a value call with a pending field name inside a struct
\* or with pending annotations completes, and afterwards the builder knows
\* every one of these texts.
C3_PendingTextsAdded ==
    [][(builderMode /\ err = Nil /\ ~broken /\ valueCall /\ pendingTexts # {}) =>
          /\ ~panicked'
          /\ lastRet' = Nil
          /\ \A s \in pendingTexts : FindByName(lstb', s).ok]_vars

\* C4: with no shared tables the builder gives the first new text ID 10 and
\* each further new text the next ID.
C4_FirstLocalIDIs10 ==
    (builderMode /\ lstb.imports = <<>>) =>
        \A i \in 1..Len(lstb.symbols) :
            FindByName(lstb, lstb.symbols[i]) = Found(9 + i)

\* C5: when the processing of a value call or of a container call fails, the
\* error is in the sticky error slot after the call.
C5_FailureIsStored ==
    (lastOp \in {"Write", "Begin", "End"} /\ lastRet # Nil) => err = lastRet

\* a step that is a call of a value operation or of a container operation
writeCall == lastOp' \in {"Write", "Begin", "End"} /\ nOps' = nOps + 1

\* a step that is a call of Finish
finishCall == lastOp' = "Finish" /\ nOps' = nOps + 1

C7_FinishTwice ==
    [][(finishCall /\ finStreak >= 1) => (finRes' = finRes /\ out' = out)]_vars

\* Finish was called twice in a row with a container open
C7_Witness == finStreak >= 2 /\ finRes = ErrNotAtTopLevel

\* the number of places of a stream where the version marker stands
Markers(bs) ==
    Cardinality({i \in 1..(Len(bs) - 3) : SubSeq(bs, i, i + 3) = BVM})

\* C8: with a supplied table, the version marker is in the sink at most once.
C8_TableWrittenOnce == ~builderMode => Markers(out) <= 1

\* C8, amended: with a supplied table, a step writes at most one version
\* marker and only when it sets wroteLST, and wroteLST is reset only by a
\* Finish that succeeds: the marker and the table are written at most once
\* between two successful calls of Finish.
C8_TableOncePerFinish ==
    [][~builderMode =>
          /\ out' # out =>
                LET added == Markers(out') - Markers(out)
                IN  /\ added \in {0, 1}
                    /\ added = 1 => (~wroteLST /\ wroteLST')
          /\ (wroteLST /\ ~wroteLST') => (finishCall /\ finRes' = Nil)]_vars

\* the marker and the table were written a second time
C8_Witness == ~builderMode /\ Markers(out) = 2

\* the serialized table in a stream: a struct in a wrapper annotated with the
\* ID the supplied table gives $ion_symbol_table, and with nothing else
IsSerializedTable(v) ==
    /\ FindByName(lst, "$ion_symbol_table").ok
    /\ v.code = 14
    /\ v.annots = << FindByName(lst, "$ion_symbol_table").id >>
    /\ Len(v.kids) = 1
    /\ v.kids[1].code = 13
    /\ v.kids[1].field = 0

\* C9: with a supplied table, whatever is in the sink starts with the version
\* marker, the value after the marker is the serialized table (so both stand
\* before any byte of a user value), and after a value call or a container
\* opening that succeeded both are in the sink.
C9_TableBeforeValues ==
    ~builderMode =>
        LET s == Sink
        IN  /\ out # <<>> => (Len(s.vals) >= 1 /\ s.vals[1].code = 16)
            /\ Len(s.vals) >= 2 => IsSerializedTable(s.vals[2])
            /\ (lastOp \in {"Write", "Begin"} /\ lastRet = Nil /\ err = Nil) =>
                   Len(s.vals) >= 2

\* the IDs the supplied table gives the pending annotations
pendingIDs ==
    [i \in 1..Len(typeAnnotations) |-> FindByName(lst, typeAnnotations[i]).id]

\* the values that a step added to the sink
addedValues ==
    ReadBinary(SubSeq(out', Len(out) + 1, Len(out'))).vals

\* C10: when a call with pending annotations writes the supplied table and
\* succeeds, the table is written with the $ion_symbol_table annotation
\* alone, and the value of the call carries exactly the pending annotations:
\* in the sink for a scalar, in the buffered wrapper for a container.
C10_TableLeavesPending ==
    [][(~builderMode /\ ~wroteLST /\ wroteLST' /\ typeAnnotations # <<>>
        /\ lastRet' = Nil /\ err' = Nil) =>
          LET added == addedValues
          IN
          /\ Len(added) >= 2
          /\ added[1].code = 16
          /\ IsSerializedTable(added[2])
          /\ typeAnnotations' = <<>>
          /\ lastOp' = "Write" =>
                /\ Len(added) = 3
                /\ added[3].code = 14
                /\ added[3].annots = pendingIDs
          /\ lastOp' = "Begin" =>
                /\ Len(added) = 2
                /\ Len(bufs') = 2
                /\ bufs'[1].code = 224
                /\ bufs'[1].children =
                      << atom(appendIDs(appendVarUint(<<>>, idsLen(pendingIDs, 1)),
                                        pendingIDs, 1)) >>]_vars

\* an annotated scalar was the call that wrote the table
C10_Witness ==
    /\ ~builderMode
    /\ nOps = 2
    /\ lastOp = "Write"
    /\ lastRet = Nil
    /\ err = Nil
    /\ Len(Sink.vals) = 3
    /\ Sink.vals[3].code = 14

\* the last call was a value write, container open, container close or Finish
\* and it succeeded
succeeded ==
    /\ lastOp \in {"Write", "Begin", "End", "Finish"}
    /\ lastRet = Nil
    /\ err = Nil
    /\ ~panicked

\* C11: after any successful value write, container open, container close or
\* Finish the pending field name is empty and the pending annotation list is
\* empty, so neither can reach a later value.
C11_PendingCleared == succeeded => (fieldName = "" /\ typeAnnotations = <<>>)

\* three calls, none a Finish, one a container open, the last a successful
\* close: the remaining one is a FieldName or TypeAnnotation whose text is gone
C11_Witness ==
    /\ succeeded
    /\ lastOp = "End"
    /\ nOps = 3
    /\ nOpens = 1
    /\ nScalars = 0
    /\ finRes = NotCalled

\* the last byte of the value whose tag is bs[pos], 0 when bs ends before it
ValueEnd(bs, pos) ==
    LET L  == bs[pos] % 16
        ln == IF L = 14 THEN ReadVarUint(bs, pos + 1, Len(bs), 0)
              ELSE [ok |-> TRUE,
                    val |-> IF L = 15 \/ bs[pos] \div 16 = 1 THEN 0 ELSE L,
                    next |-> pos + 1]
    IN  IF ln.ok /\ ln.next + ln.val - 1 <= Len(bs)
        THEN ln.next + ln.val - 1 ELSE 0

\* bs is the complete encoding of exactly one value (type code 0 is a value
\* only as null, 0F: the other tags of code 0 are padding)
IsOneValue(bs) ==
    /\ bs # <<>>
    /\ bs[1] \div 16 # 0 \/ bs[1] = 15
    /\ ValueEnd(bs, 1) = Len(bs)

\* the number of bytes of the annotation part at the start of a wrapper's
\* content: the VarUInt length and the annotation IDs; 0 when malformed
AnnotsLen(bs) ==
    LET al == ReadVarUint(bs, 1, Len(bs), 0)
    IN  IF /\ al.ok
           /\ al.val >= 1
           /\ al.next + al.val - 1 <= Len(bs)
           /\ ReadVarUints(bs, al.next, al.next + al.val - 1).ok
        THEN al.next + al.val - 1 ELSE 0

\* bs, the content of a wrapper, is the annotation part and then one value
IsWrapperContent(bs) ==
    /\ AnnotsLen(bs) > 0
    /\ IsOneValue(SubSeq(bs, AnnotsLen(bs) + 1, Len(bs)))

RECURSIVE WrappersIn(_)
\* the annotation wrappers among the nodes ns and below them
WrappersIn(ns) ==
    IF ns = <<>> THEN {}
    ELSE (IF ns[1].kind = "container"
          THEN (IF ns[1].code = 224 THEN {ns[1]} ELSE {})
               \cup WrappersIn(ns[1].children)
          ELSE {})
         \cup WrappersIn(Tail(ns))

\* the wrappers that were emitted into a buffered container
bufferedWrappers ==
    UNION { WrappersIn(bufs[i].children) : i \in 1..Len(bufs) }

RECURSIVE TopWrapperContents(_, _)
\* the contents of the wrappers among the top-level values of bs[pos..]
TopWrapperContents(bs, pos) ==
    IF pos > Len(bs) THEN {}
    ELSE IF pos + 3 <= Len(bs) /\ SubSeq(bs, pos, pos + 3) = BVM
    THEN TopWrapperContents(bs, pos + 4)
    ELSE LET last == ValueEnd(bs, pos)
         IN  IF last = 0 THEN {}
             ELSE (IF bs[pos] \div 16 = 14
                   THEN {SubSeq(bs, last - (IF bs[pos] % 16 = 14
                                            THEN ReadVarUint(bs, pos + 1, Len(bs), 0).val
                                            ELSE bs[pos] % 16) + 1, last)}
                   ELSE {})
                  \cup TopWrapperContents(bs, last + 1)

\* C12: every annotation wrapper the writer has emitted, into a buffered
\* container or to the sink, holds the atom with the annotation-list length
\* and the annotation IDs and then the complete encoding of exactly one value;
\* after a successful value write or container close the top of the buffer
\* stack is not an annotation wrapper.  (A wrapper below a top-level container
\* of the sink was checked while that container was buffered.)
C12_WrapperHoldsOneValue ==
    /\ \A n \in bufferedWrappers :
          /\ Len(n.children) >= 2
          /\ n.children[1].kind = "atom"
          /\ AnnotsLen(n.children[1].bs) = Len(n.children[1].bs)
          /\ IsOneValue(ChildrenBytes(n.children, 2))
    /\ \A c \in TopWrapperContents(out, 1) : IsWrapperContent(c)
    /\ (succeeded /\ lastOp \in {"Write", "End"}) =>
          (bufsPeekIsNil(W) \/ bufsPeek(W).code # 224)

RECURSIVE FramedEnd(_, _, _, _)
\* the position after the nodes ns[i..] when bs[pos..] holds them with every
\* container's tag declaring exactly the bytes of its children; 0 otherwise
FramedEnd(bs, pos, ns, i) ==
    IF i > Len(ns) THEN pos
    ELSE IF ns[i].kind = "atom"
    THEN IF /\ pos + Len(ns[i].bs) - 1 <= Len(bs)
            /\ SubSeq(bs, pos, pos + Len(ns[i].bs) - 1) = ns[i].bs
         THEN FramedEnd(bs, pos + Len(ns[i].bs), ns, i + 1)
         ELSE 0
    ELSE IF pos > Len(bs) \/ bs[pos] \div 16 # ns[i].code \div 16 THEN 0
    ELSE LET last     == ValueEnd(bs, pos)
             declared == IF bs[pos] % 16 = 14
                         THEN ReadVarUint(bs, pos + 1, Len(bs), 0).val
                         ELSE bs[pos] % 16
         IN  IF last = 0 THEN 0
             ELSE IF FramedEnd(bs, last - declared + 1, ns[i].children, 1) # last + 1
             THEN 0
             ELSE FramedEnd(bs, last + 1, ns, i + 1)

\* the node a container close at depth one sends to the sink: the container,
\* inside its annotation wrapper when it was opened with annotations
closedNode ==
    IF Len(bufs) = 1 THEN bufs[1]
    ELSE [bufs[1] EXCEPT !.children = Append(@, bufs[2])]

\* C13: every list, sexp, struct and annotation wrapper that reaches the sink
\* declares in its tag exactly the number of bytes of its serialized children,
\* at every depth: a closed container is compared node by node with the bytes
\* its close added to the sink, and the bytes any other call adds (a scalar in
\* its wrapper, the symbol table) are read back with every container filled
\* exactly by whole values.
C13_DeclaredLengths ==
    [][out' # out =>
         LET added == SubSeq(out', Len(out) + 1, Len(out'))
         IN  /\ lastOp' = "End" =>
                  /\ Len(bufs) \in {1, 2}
                  /\ Len(bufs) = 2 => bufs[1].code = 224
                  /\ FramedEnd(added, 1, <<closedNode>>, 1) = Len(added) + 1
             /\ lastOp' # "End" => ReadBinary(added).ok]_vars

\* BeginList; WriteInt(1); WriteInt(1); EndList has put B4 21 01 21 01 in the sink
C13_Witness ==
    /\ lastOp = "End"
    /\ succeeded
    /\ Len(out) >= 5
    /\ SubSeq(out, Len(out) - 4, Len(out)) = <<180, 33, 1, 33, 1>>

\* C14: a value write or container open made inside a struct with no pending
\* field name (and no stored error) fails with the field-name-not-set error,
\* which is then the stored error, and leaves the buffer stack, the struct's
\* buffered children with it, as it was.
C14_FieldNameNotSet ==
    [][(valueCall /\ InStruct(W) /\ fieldName = "" /\ err = Nil) =>
           /\ lastRet' = ErrFieldNameNotSet
           /\ err' = ErrFieldNameNotSet
           /\ bufs' = bufs]_vars

\* the pending texts that the supplied table does not define
undefinedPending == { s \in pendingTexts : ~FindByName(lst, s).ok }

symbolNotDefined(e) ==
    e.msg \in {ErrSymbolNotDefined("").msg, ErrSymbolNotDefinedLST("").msg}

\* C15: with a supplied table, a value call that uses a field name (inside a
\* struct) or an annotation the table does not define fails with a
\* symbol-not-defined error, which is then the stored error and names such a
\* text once the table is written; what the call emits is at most the version
\* marker and the table in the sink and the ID of a defined field name in the
\* struct's buffer, so no wrapper and no value.  WriteSymbol(s) with a text s
\* the table does not define fails with the symbol-not-defined error for s
\* and emits nothing.  (The sink accepts writes, or the table is written.)
C15_SymbolNotDefined ==
    [][(~builderMode /\ err = Nil /\ ~panicked /\ (~broken \/ wroteLST)) =>
          /\ (/\ valueCall
              /\ undefinedPending # {}
              /\ ~(InStruct(W) /\ fieldName = "")) =>
                 /\ symbolNotDefined(err')
                 /\ lastRet' = err'
                 /\ wroteLST => err'.arg \in undefinedPending
                 /\ out' # out =>
                       /\ ~wroteLST
                       /\ LET added == addedValues
                          IN  /\ Len(added) \in {1, 2}
                              /\ added[1].code = 16
                              /\ Len(added) = 2 => IsSerializedTable(added[2])
                 /\ \/ bufs' = bufs
                    \/ /\ InStruct(W)
                       /\ FindByName(lst, fieldName).ok
                       /\ bufs' = bufsAppend(W, atom(appendVarUint(<<>>,
                                     FindByName(lst, fieldName).id))).bufs
          /\ \A s \in UserTexts :
                ~FindByName(lst, s).ok =>
                   /\ WriteSymbol(W, s).w.err = ErrSymbolNotDefinedLST(s)
                   /\ WriteSymbol(W, s).w.out = out
                   /\ WriteSymbol(W, s).w.bufs = bufs]_vars

\* the writer after a close of kind t that does not match the context leaves
\* r: the wrong-container error returned and stored, both stacks untouched
closeRefused(r) ==
    /\ r.err = ErrWrongContainer
    /\ r.w.err = ErrWrongContainer
    /\ r.w.ctx = ctx
    /\ r.w.bufs = bufs
    /\ r.w.out = out

\* C16: in every reachable state with no stored error, each of EndList,
\* EndSexp and EndStruct whose kind is not the top of the context stack (a
\* different container kind, or top level) fails with the wrong-container
\* error and leaves the context stack and the buffer stack as they are; and
\* every close that returns this error has changed neither stack.
C16_WrongContainer ==
    [][/\ (err = Nil /\ ~panicked) =>
             /\ ctxPeek(W) # ctxInList => closeRefused(EndList(W))
             /\ ctxPeek(W) # ctxInSexp => closeRefused(EndSexp(W))
             /\ ctxPeek(W) # ctxInStruct => closeRefused(EndStruct(W))
       /\ (lastOp' = "End" /\ nOps' = nOps + 1 /\ lastRet' = ErrWrongContainer) =>
             (ctx' = ctx /\ bufs' = bufs /\ err' = ErrWrongContainer)]_vars

\* a close of the wrong kind was refused inside an open container
C16_Witness ==
    /\ lastOp = "End"
    /\ lastRet = ErrWrongContainer
    /\ err = ErrWrongContainer
    /\ Len(ctx) = 2
    /\ Len(bufs) >= 1

\* C17: Finish called with no stored error while a list, sexp or struct is
\* open returns the not-at-top-level error, stores it, and writes no byte to
\* the sink.
C17_FinishNotAtTopLevel ==
    [][(finishCall /\ err = Nil /\ Len(ctx) > 1) =>
           /\ finRes' = ErrNotAtTopLevel
           /\ err' = ErrNotAtTopLevel
           /\ out' = out
           /\ bufs' = bufs
           /\ ctx' = ctx]_vars

\* Finish was the call after a container open, and was refused
C17_Witness ==
    /\ lastOp = "Finish"
    /\ finStreak = 1
    /\ finRes = ErrNotAtTopLevel
    /\ Len(ctx) > 1
    /\ ctxPeek(W) \in {ctxInList, ctxInSexp, ctxInStruct}

\* C18: for every supplied table, when the first value call writes the table
\* to a sink that accepts writes, the marker is followed by the table: a
\* struct annotated with symbol ID 3 alone, holding the imports as a list
\* with field ID 6 exactly when the table has imports and the symbols as a
\* list with field ID 7 exactly when it has local symbols, and nothing else.
C18_TableFieldIDs ==
    [][(~builderMode /\ ~wroteLST /\ wroteLST' /\ ~broken) =>
          LET added == addedValues
          IN  /\ Len(added) >= 2
              /\ added[1].code = 16
              /\ added[2].code = 14
              /\ added[2].annots = <<3>>
              /\ Len(added[2].kids) = 1
              /\ added[2].kids[1].code = 13
              /\ LET fs == added[2].kids[1].kids
                 IN  /\ \A i \in 1..Len(fs) : fs[i].code = 11 /\ fs[i].field \in {6, 7}
                     /\ (lst.imports # <<>>) <=> (\E i \in 1..Len(fs) : fs[i].field = 6)
                     /\ (lst.symbols # <<>>) <=> (\E i \in 1..Len(fs) : fs[i].field = 7)
                     /\ Len(fs) <= 2]_vars

\* text s is the text of a symbol of an import of b or of b's local list
definedIn(b, s) ==
    \/ \E i \in 1..Len(b.imports) :
          \E j \in 1..Len(b.imports[i].symbols) : b.imports[i].symbols[j] = s
    \/ \E j \in 1..Len(b.symbols) : b.symbols[j] = s

addCall == lastOp' = "Add" /\ nOps' = nOps + 1

\* C19: Add(s) on a builder that defines s, in an import or in its local
\* list, returns the ID the builder has for s and false and leaves the
\* builder as it is; otherwise it appends s to the local list, leaves the
\* rest of the builder as it is and returns maxImportID plus the new length
\* of the local list, and true.  A second Add(s) right after returns the same
\* ID and false and changes nothing.
C19_Add ==
    [][addCall =>
         LET s == lastRet'.text
         IN  /\ definedIn(lstb, s) =>
                   /\ lastRet'.id = FindByName(lstb, s).id
                   /\ FindByName(lstb, s).ok
                   /\ ~lastRet'.isNew
                   /\ lstb' = lstb
             /\ ~definedIn(lstb, s) =>
                   /\ lstb'.symbols = Append(lstb.symbols, s)
                   /\ lstb'.imports = lstb.imports
                   /\ lstb'.offsets = lstb.offsets
                   /\ lstb'.maxImportID = lstb.maxImportID
                   /\ lastRet'.id = lstb.maxImportID + Len(lstb'.symbols)
                   /\ lastRet'.isNew
             /\ Add(lstb', s) = [b |-> lstb', id |-> lastRet'.id, isNew |-> FALSE]]_vars

\* the last Add found its text in the local list of a builder with imports,
\* where an earlier Add had appended it
C19_Witness ==
    /\ lastOp = "Add"
    /\ ~lastRet.isNew
    /\ lastRet.id > lstb.maxImportID
    /\ lstb.maxImportID > 0
    /\ lstb.symbols # <<>>
    /\ lstb.symbols[lastRet.id - lstb.maxImportID] = lastRet.text

\* C20: for the local symbol table lst and every id from below 1 to above
\* MaxID: an id in the range (offset[i], offset[i] + MaxID of import i] of an
\* import i is found as the symbol id - offset[i] of that import; an id in
\* (maxImportID, MaxID] is found as local symbol id - maxImportID; every
\* other id (id <= 0 or id > MaxID) is not found.
C20_FindByID ==
    lst # NilTable =>
       \A id \in -1..(MaxID(lst) + 2) :
          /\ \A i \in 1..Len(lst.imports) :
                (/\ lst.offsets[i] < id
                 /\ id <= lst.offsets[i] + SharedMaxID(lst.imports[i])) =>
                    FindByID(lst, id) =
                       FoundText(lst.imports[i].symbols[id - lst.offsets[i]])
          /\ (lst.maxImportID < id /\ id <= MaxID(lst)) =>
                FindByID(lst, id) = FoundText(lst.symbols[id - lst.maxImportID])
          /\ (id <= 0 \/ id > MaxID(lst)) => FindByID(lst, id) = NotFoundText

\* a table with three imports, the second with MaxID 0, the third and the
\* local list not empty
C20_Witness ==
    /\ lst # NilTable
    /\ Len(lst.imports) = 3
    /\ SharedMaxID(lst.imports[1]) > 0
    /\ SharedMaxID(lst.imports[2]) = 0
    /\ SharedMaxID(lst.imports[3]) > 0
    /\ lst.symbols # <<>>
    /\ FindByID(lst, lst.maxImportID).ok
    /\ FindByID(lst, MaxID(lst)).ok

\* the imports of t that hold the text s, and the place of s in a symbol list
holders(t, s) ==
    { i \in 1..Len(t.imports) :
         \E j \in 1..Len(t.imports[i].symbols) : t.imports[i].symbols[j] = s }
placeIn(symbols, s) == CHOOSE j \in 1..Len(symbols) : symbols[j] = s

\* the builder and, once one is made, the table
tablesNow == {lstb} \cup (IF lst = NilTable THEN {} ELSE {lst})

\* C21: FindByName(s) on the builder and on the table returns, when some
\* import holds s, the offset of the first such import plus the ID of s in
\* it, whether or not later imports or the local list hold s too; the local
\* ID (maxImportID plus the place of s in the local list) only when no import
\* holds s; and not found when nothing holds s.
C21_FindByName ==
    \A t \in tablesNow : \A s \in TableTexts :
       IF holders(t, s) # {}
       THEN LET i == CHOOSE i \in holders(t, s) : \A k \in holders(t, s) : i <= k
            IN  FindByName(t, s) =
                   Found(t.offsets[i] + placeIn(t.imports[i].symbols, s))
       ELSE IF \E j \in 1..Len(t.symbols) : t.symbols[j] = s
       THEN FindByName(t, s) = Found(t.maxImportID + placeIn(t.symbols, s))
       ELSE FindByName(t, s) = NotFound

\* a table whose second and third import and whose local list all hold "a",
\* after a first import that does not
C21_Witness ==
    /\ lst # NilTable
    /\ Len(lst.imports) = 3
    /\ holders(lst, "a") = {2, 3}
    /\ SharedMaxID(lst.imports[1]) > 0
    /\ \E j \in 1..Len(lst.symbols) : lst.symbols[j] = "a"
    /\ FindByName(lst, "a") = Found(lst.offsets[2] + 1)

\* C22: an Add on the builder leaves every answer of the table made before
\* it as it was: MaxID, FindByName of every text and FindByID of every id;
\* so the answers after any sequence of Adds are those at the moment Build
\* returned.
C22_BuildIsSnapshot ==
    [][(addCall /\ lst # NilTable) =>
          /\ MaxID(lst') = MaxID(lst)
          /\ \A s \in TableTexts : FindByName(lst', s) = FindByName(lst, s)
          /\ \A id \in -1..(MaxID(lstb') + 1) :
                FindByID(lst', id) = FindByID(lst, id)]_vars

\* a table built when the builder had one local symbol fewer: the last Add
\* appended a text that the builder now finds and the table does not
C22_Witness ==
    /\ lst # NilTable
    /\ lastOp = "Add"
    /\ lastRet.isNew
    /\ lst.imports = lstb.imports
    /\ lst.symbols # <<>>
    /\ lstb.symbols = Append(lst.symbols, lastRet.text)
    /\ FindByName(lstb, lastRet.text).ok
    /\ ~FindByName(lst, lastRet.text).ok
    /\ MaxID(lst) = MaxID(lstb) - 1

\* the bodies of the strings of the symbols list (field ID 7) of a table read
\* from the stream
SymbolBodies(v) ==
    LET fs == v.kids[1].kids
        ss == { i \in 1..Len(fs) : fs[i].field = 7 /\ fs[i].code = 11 }
    IN  IF ss = {} THEN <<>>
        ELSE LET l == fs[CHOOSE i \in ss : TRUE].kids
             IN  [i \in 1..Len(l) |-> l[i].body]

\* C23 (what reading back needs): after a successful Finish of a document
\* written through NewBinaryWriter the sink reads as a binary stream that
\* gives the values written: it starts with the version marker, every
\* container is filled by whole values, and when the writer gave IDs to
\* texts the stream holds a local symbol table with the builder's imports'
\* max_id and the builder's texts, so that each symbol ID reads back as the
\* text written.
C23_RoundTrip ==
    (builderMode /\ lastOp = "Finish" /\ finRes = Nil /\ err = Nil /\ valueWritten) =>
        /\ Sink.ok
        /\ Len(Sink.vals) >= 1
        /\ Sink.vals[1].code = 16
        /\ lstb.symbols # <<>> =>
              \E i \in 1..Len(Sink.vals) :
                 /\ IsTable(Sink.vals[i])
                 /\ TableOf(Sink.vals[i]).maxImportID = lstb.maxImportID
                 /\ SymbolBodies(Sink.vals[i]) =
                       [k \in 1..Len(lstb.symbols) |-> Utf8(lstb.symbols[k])]

\* the bytes a value call with result r has emitted: to the sink at top
\* level, to the open container otherwise
valueBytes(r) ==
    IF bufs = <<>> THEN SubSeq(r.w.out, Len(out) + 1, Len(r.w.out))
    ELSE ChildrenBytes(r.w.bufs[Len(bufs)].children,
                       Len(bufs[Len(bufs)].children) + 1)

\* a value written now is emitted bare: no stored error, a sink that accepts
\* writes, nothing pending, the symbol table not due, not inside a struct
bareContext ==
    /\ err = Nil
    /\ ~panicked
    /\ ~broken
    /\ fieldName = ""
    /\ typeAnnotations = <<>>
    /\ builderMode \/ wroteLST
    /\ ~InStruct(W)

\* C24: in every reachable state where a value is emitted bare, WriteClob,
\* WriteBlob and WriteBigInt emit for every payload, the two-byte one and the
\* 64-byte one, exactly appendTag(code, length) followed by the payload.
C24_TagThenPayload ==
    bareContext =>
       /\ \A v \in ClobValues \cup BlobValues :
             /\ valueBytes(WriteClob(W, v)) = appendTag(<<>>, 144, Len(v)) \o v
             /\ valueBytes(WriteBlob(W, v)) = appendTag(<<>>, 160, Len(v)) \o v
       /\ \A b \in BigIntValues :
             valueBytes(WriteBigInt(W, b)) =
                appendTag(<<>>, IF b.sign < 0 THEN 48 ELSE 32, Len(b.bytes))
                   \o b.bytes

\* C25: in builder mode, when Finish is called for the first time at top
\* level with no stored error and user output exists, the buffer stack holds
\* exactly one container and that container holds all of the user output:
\* none of it is in the sink.
C25_OneTopLevelBuffer ==
    [][(/\ finishCall
        /\ builderMode
        /\ finRes = NotCalled
        /\ err = Nil
        /\ ctx = <<ctxAtTopLevel>>
        /\ (out # <<>> \/ bufs # <<>>)) =>
           /\ Len(bufs) = 1
           /\ bufs[1].kind = "container"
           /\ bufs[1].children # <<>>
           /\ out = <<>>]_vars

\* the atom of the pending field name, and the atom that opens a wrapper for
\* the pending annotations
fieldAtom == atom(appendVarUint(<<>>, FindByName(lst, fieldName).id))
annotsAtom ==
    atom(appendIDs(appendVarUint(<<>>, idsLen(pendingIDs, 1)), pendingIDs, 1))

\* C26: when a value or a container with a pending field name and pending
\* annotations is written inside a struct and the call succeeds, the struct's
\* own container gets the field-name ID atom and, right after it, the
\* wrapper (for a container the wrapper is open on the buffer stack above
\* the struct, the container above it); the wrapper starts with the
\* annotation atom, holds no field-name bytes, and its tag declares exactly
\* the bytes of its own children.
C26_FieldNameOutsideWrapper ==
    [][(/\ valueCall
        /\ InStruct(W)
        /\ fieldName # ""
        /\ typeAnnotations # <<>>
        /\ err = Nil
        /\ ~panicked'
        /\ lastRet' = Nil
        /\ err' = Nil) =>
           LET top == Len(bufs)
               old == bufs[top].children
               new == bufs'[top].children
           IN  /\ Len(new) > Len(old)
               /\ SubSeq(new, 1, Len(old)) = old
               /\ new[Len(old) + 1] = fieldAtom
               /\ lastOp' = "Write" =>
                     /\ Len(bufs') = top
                     /\ Len(new) = Len(old) + 2
                     /\ new[Len(new)].kind = "container"
                     /\ new[Len(new)].code = 224
                     /\ new[Len(new)].children[1] = annotsAtom
                     /\ ValueEnd(NodeBytes(new[Len(new)]), 1)
                           = Len(NodeBytes(new[Len(new)]))
                     /\ Len(ChildrenBytes(bufs'[top].children, Len(old) + 1))
                           = Len(fieldAtom.bs) + Len(NodeBytes(new[Len(new)]))
               /\ lastOp' = "Begin" =>
                     /\ Len(bufs') = top + 2
                     /\ Len(new) = Len(old) + 1
                     /\ bufs'[top + 1].code = 224
                     /\ bufs'[top + 1].children = <<annotsAtom>>
                     /\ bufs'[top + 2].children = <<>>]_vars

\* inside a struct, a field with an annotated scalar has been buffered
C26_Witness ==
    /\ ~builderMode
    /\ lastOp = "Write"
    /\ succeeded
    /\ InStruct(W)
    /\ Len(bufs) = 1
    /\ Len(bufs[1].children) = 2
    /\ bufs[1].children[1].kind = "atom"
    /\ bufs[1].children[2].kind = "container"
    /\ bufs[1].children[2].code = 224

\* the context kind a buffered container of the given code was opened for
kindOf(code) ==
    CASE code = 176 -> ctxInList
      [] code = 192 -> ctxInSexp
      [] code = 208 -> ctxInStruct
      [] OTHER -> "wrapper"

\* the containers of the buffer stack that are not annotation wrappers
RECURSIVE openKinds(_, _)
openKinds(bs, i) ==
    IF i > Len(bs) THEN <<>>
    ELSE (IF bs[i].code = 224 THEN <<>> ELSE <<kindOf(bs[i].code)>>)
         \o openKinds(bs, i + 1)

\* C27: between calls, with no stored error, the buffer stack holds one
\* container for every open list, sexp and struct, of the kind of that
\* context and in the same order, and one wrapper directly below every
\* container that was opened with annotations and nowhere else; so it is
\* empty exactly when the context stack is [top], whose bottom is always top.
C27_StacksAgree ==
    (err = Nil /\ ~panicked) =>
        /\ ctx # <<>>
        /\ ctx[1] = ctxAtTopLevel
        /\ \A i \in 2..Len(ctx) : ctx[i] \in {ctxInList, ctxInSexp, ctxInStruct}
        /\ openKinds(bufs, 1) = SubSeq(ctx, 2, Len(ctx))
        /\ \A i \in 1..Len(bufs) :
              bufs[i].code = 224 => (i < Len(bufs) /\ bufs[i + 1].code # 224)
        /\ Len(bufs) = (Len(ctx) - 1)
                       + Cardinality({i \in 1..Len(bufs) : bufs[i].code = 224})
        /\ (bufs = <<>>) <=> (ctx = <<ctxAtTopLevel>>)

\* a struct holding an open list that was opened with an annotation
C27_Witness ==
    /\ err = Nil
    /\ ~panicked
    /\ ctx = <<ctxAtTopLevel, ctxInStruct, ctxInList>>
    /\ Len(bufs) = 3
    /\ bufs[2].code = 224

\* the atom that opens the wrapper of the serialized symbol table
tableAtom ==
    atom(appendVarUint(appendVarUint(<<>>,
            varUintLen(FindByName(lst, "$ion_symbol_table").id)),
         FindByName(lst, "$ion_symbol_table").id))

\* the wrappers on the buffer stack and in the buffered containers
allWrappers ==
    bufferedWrappers \cup { bufs[i] : i \in { j \in 1..Len(bufs) : bufs[j].code = 224 } }

\* C28: with a supplied table, the table is due (wroteLST is false) only
\* while the context stack is [top] and the buffer stack is empty, also after
\* a Finish; the call that writes it starts from such a state and whatever it
\* then adds to the sink starts with the version marker; no buffered
\* container or wrapper ever holds the marker or the table's wrapper.
C28_TableOnlyAtTopLevel ==
    [][~builderMode =>
          /\ ~wroteLST => (ctx = <<ctxAtTopLevel>> /\ bufs = <<>>)
          /\ (~wroteLST /\ wroteLST') =>
                /\ ctx = <<ctxAtTopLevel>>
                /\ bufs = <<>>
                /\ out' # out =>
                      (/\ Len(out') >= Len(out) + 4
                       /\ SubSeq(out', Len(out) + 1, Len(out) + 4) = BVM)
          /\ \A i \in 1..Len(bufs') :
                Markers(ChildrenBytes(bufs'[i].children, 1)) = 0
          /\ FindByName(lst, "$ion_symbol_table").ok =>
                \A n \in allWrappers : n.children[1] # tableAtom]_vars

\* after a value and a successful Finish a container was opened: the table
\* went to the sink a second time, before the container was pushed
C28_Witness ==
    /\ ~builderMode
    /\ lastOp = "Begin"
    /\ succeeded
    /\ finRes = Nil
    /\ wroteLST
    /\ Markers(out) = 2
    /\ Len(bufs) = 1
    /\ bufs[1].children = <<>>

\* a value call or a container call that fails because the field name is not
\* set or because a text is not defined
failsUnresolved ==
    /\ valueCall
    /\ err = Nil
    /\ ~panicked'
    /\ (err' = ErrFieldNameNotSet \/ symbolNotDefined(err'))
    /\ lastRet' \in {err', Nil}

C30_NameAndIDAgree ==
    /\ \A t \in tablesNow : \A s \in TableTexts :
          FindByName(t, s).ok =>
             /\ 1 <= FindByName(t, s).id
             /\ FindByName(t, s).id <= MaxID(t)
             /\ FindByID(t, FindByName(t, s).id) = FoundText(s)
    /\ \A s1, s2 \in TableTexts :
          (/\ s1 # s2
           /\ FindByName(lstb, s1).ok
           /\ FindByName(lstb, s2).ok) =>
              FindByName(lstb, s1).id # FindByName(lstb, s2).id
    /\ lastOp = "Add" =>
          /\ lastRet.id = FindByName(lstb, lastRet.text).id
          /\ \A s \in TableTexts \ {lastRet.text} :
                FindByName(lstb, s).ok => FindByName(lstb, s).id # lastRet.id

\* a builder with imports after two new texts were added, the second by the
\* last call, next to a table made by NewLocalSymbolTable from a list in which
\* a text came twice or is held by an import
C30_Witness ==
    /\ lastOp = "Add"
    /\ lastRet.isNew
    /\ lstb.maxImportID > 0
    /\ Len(lstb.symbols) = 2
    /\ lst # NilTable
    /\ lst.indexID = "table"
    /\ \E s \in TableTexts :
          /\ FindByName(lst, s).ok
          /\ FindByName(lst, s).id <= lst.maxImportID
          /\ s \in DOMAIN lst.index
====
